---- MODULE Spec2Model ----
(***************************************************************************)
(* Conference Central (conference.py, main.py): the conference query       *)
(* filter validator/composer, conference creation, the transactional       *)
(* registration and the announcement cache, as a state machine.            *)
(***************************************************************************)
EXTENDS Integers, Sequences, FiniteSets, TLC

VARIABLES
    request,      \* the ConferenceQueryForms message held by the client: its filters
    response,     \* the outcome of the most recently completed API call
    conferences,  \* datastore: Conference entities by key
    profiles,     \* datastore: Profile entities by user id
    memcache,     \* memcache entry under MEMCACHE_ANNOUNCEMENTS_KEY
    txn           \* per user: the running _conference_registration transaction

vars == <<request, response, conferences, profiles, memcache, txn>>

\* Python's None.
NoneVal == "None"

-----------------------------------------------------------------------------
(* Lookup tables, conference.py:36-50 *)

OPERATORS ==
    [EQ |-> "=", GT |-> ">", GTEQ |-> ">=", LT |-> "<", LTEQ |-> "<=", NE |-> "!="]

FIELDS ==
    [CITY |-> "city", TOPIC |-> "topics", MONTH |-> "month",
     MAX_ATTENDEES |-> "maxAttendees"]

-----------------------------------------------------------------------------
(* Python values carried by a filter: a str (a sequence of characters) or,  *)
(* after int(), an int.                                                     *)

StrV(s) == [t |-> "str", s |-> s, n |-> 0]
IntV(n) == [t |-> "int", s |-> <<>>, n |-> n]

Digits == {"0", "1", "2", "3", "4", "5", "6", "7", "8", "9"}

DigitVal(ch) ==
    CASE ch = "0" -> 0 [] ch = "1" -> 1 [] ch = "2" -> 2 [] ch = "3" -> 3
      [] ch = "4" -> 4 [] ch = "5" -> 5 [] ch = "6" -> 6 [] ch = "7" -> 7
      [] ch = "8" -> 8 [] ch = "9" -> 9

\* int(str) accepts a non-empty run of decimal digits (the inputs drawn here
\* carry no sign and no surrounding blanks); anything else raises ValueError.
IsNumeric(s) == Len(s) > 0 /\ \A i \in 1..Len(s) : s[i] \in Digits

RECURSIVE DecimalValue(_)
DecimalValue(s) ==
    IF s = <<>> THEN 0
    ELSE 10 * DecimalValue(SubSeq(s, 1, Len(s) - 1)) + DigitVal(s[Len(s)])

\* filtr["value"] = int(filtr["value"]) : [ok, value]
PyInt(v) ==
    IF v.t = "int" THEN [ok |-> TRUE, value |-> v]
    ELSE IF IsNumeric(v.s) THEN [ok |-> TRUE, value |-> IntV(DecimalValue(v.s))]
    ELSE [ok |-> FALSE, value |-> v]

-----------------------------------------------------------------------------
(* _format_filters, conference.py:276-303 *)

\* A Python value is true unless it is None or the empty string.
Truthy(x) == x # NoneVal /\ x # ""

\* The try block: both tokens are looked up; a KeyError rejects the filter.
TokensKnown(f) == f.field \in DOMAIN FIELDS /\ f.operator \in DOMAIN OPERATORS

\* The dict built from the message with field and operator replaced.
MappedFilter(f) ==
    [field |-> FIELDS[f.field], operator |-> OPERATORS[f.operator], value |-> f.value]

\* The state of the loop: the error raised (if any), inequality_field,
\* formatted_filters, and the filter messages as the loop leaves them.
FormatStart(filters) ==
    [err |-> NoneVal, inequality_field |-> NoneVal,
     formatted_filters |-> <<>>, messages |-> filters]

\* FormatBody with inequality_field never assigned.
FormatBodyNoTracking(acc, i) ==
    LET f == acc.messages[i] IN
    IF ~TokensKnown(f)
    THEN [acc EXCEPT !.err = "InvalidFilter"]
    ELSE LET filters == MappedFilter(f) IN
         IF filters.operator # "="
         THEN IF Truthy(acc.inequality_field) /\ acc.inequality_field # filters.field
              THEN [acc EXCEPT !.err = "MultipleInequalityFields"]
              ELSE [acc EXCEPT !.formatted_filters = Append(@, filters)]
         ELSE [acc EXCEPT !.formatted_filters = Append(@, filters)]

\* FormatBody with the KeyError swallowed: the filter is skipped.
FormatBodySkipsUnknown(acc, i) ==
    LET f == acc.messages[i] IN
    IF ~TokensKnown(f)
    THEN acc
    ELSE LET filters == MappedFilter(f) IN
         IF filters.operator # "="
         THEN IF Truthy(acc.inequality_field) /\ acc.inequality_field # filters.field
              THEN [acc EXCEPT !.err = "MultipleInequalityFields"]
              ELSE [acc EXCEPT !.inequality_field = filters.field,
                               !.formatted_filters = Append(@, filters)]
         ELSE [acc EXCEPT !.formatted_filters = Append(@, filters)]

\* FormatBody with the inequality field tracked only while none is set yet,
\* and set by every filter, "=" included.
FormatBodyTracksEveryFilter(acc, i) ==
    LET f == acc.messages[i] IN
    IF ~TokensKnown(f)
    THEN [acc EXCEPT !.err = "InvalidFilter"]
    ELSE LET filters == MappedFilter(f) IN
         IF filters.operator # "=" /\ Truthy(acc.inequality_field)
                                   /\ acc.inequality_field # filters.field
         THEN [acc EXCEPT !.err = "MultipleInequalityFields"]
         ELSE [acc EXCEPT !.inequality_field = filters.field,
                          !.formatted_filters = Append(@, filters)]

\* FormatBody working on the message itself instead of a copy of its fields.
FormatBodyInPlace(acc, i) ==
    LET f == acc.messages[i] IN
    IF ~TokensKnown(f)
    THEN [acc EXCEPT !.err = "InvalidFilter"]
    ELSE LET filters == MappedFilter(f) IN
         IF filters.operator # "="
         THEN IF Truthy(acc.inequality_field) /\ acc.inequality_field # filters.field
              THEN [acc EXCEPT !.err = "MultipleInequalityFields",
                               !.messages[i] = filters]
              ELSE [acc EXCEPT !.inequality_field = filters.field,
                               !.formatted_filters = Append(@, filters),
                               !.messages[i] = filters]
         ELSE [acc EXCEPT !.formatted_filters = Append(@, filters),
                          !.messages[i] = filters]

\* One iteration of "for f in filters", on the i-th message.
FormatBody(acc, i) ==
    LET f == acc.messages[i] IN
    IF ~TokensKnown(f)
    THEN [acc EXCEPT !.err = "InvalidFilter"]
    ELSE LET filters == MappedFilter(f) IN
         IF filters.operator # "="
         THEN IF Truthy(acc.inequality_field) /\ acc.inequality_field # filters.field
              THEN [acc EXCEPT !.err = "MultipleInequalityFields"]
              ELSE [acc EXCEPT !.inequality_field = filters.field,
                               !.formatted_filters = Append(@, filters)]
         ELSE [acc EXCEPT !.formatted_filters = Append(@, filters)]

RECURSIVE FormatLoop(_, _)
FormatLoop(acc, i) ==
    IF i > Len(acc.messages) \/ acc.err # NoneVal THEN acc
    ELSE FormatLoop(FormatBody(acc, i), i + 1)

FormatFilters(filters) == FormatLoop(FormatStart(filters), 1)

-----------------------------------------------------------------------------
(* _get_query, conference.py:255-274 *)

\* QueryOrders with the two order() calls swapped.
QueryOrdersNameFirst(inequality_filter) ==
    IF ~Truthy(inequality_filter) THEN <<"name">>
    ELSE <<"name", inequality_filter>>

\* query.order(...): the sort keys, in the order they are applied.
QueryOrders(inequality_filter) ==
    IF ~Truthy(inequality_filter) THEN <<"name">>
    ELSE <<inequality_filter, "name">>

\* FilterBody with int() applied to no field.
FilterBodyNoInt(q, filtr) == [q EXCEPT !.filters = Append(@, filtr)]

\* One iteration of "for filtr in filters": int() for the numeric fields, then
\* one FilterNode appended to the query.
FilterBody(q, filtr) ==
    IF filtr.field \in {"month", "maxAttendees"}
    THEN LET c == PyInt(filtr.value) IN
         IF c.ok
         THEN [q EXCEPT !.filters = Append(@, [filtr EXCEPT !.value = c.value])]
         ELSE [q EXCEPT !.err = "ValueError"]
    ELSE [q EXCEPT !.filters = Append(@, filtr)]

RECURSIVE FilterLoop(_, _, _)
FilterLoop(q, filters, i) ==
    IF i > Len(filters) \/ q.err # NoneVal THEN q
    ELSE FilterLoop(FilterBody(q, filters[i]), filters, i + 1)

\* The query built, or the exception that left _get_query (int() raises after
\* the sort orders were applied, so they are kept with a ValueError);
\* "messages" are the client's filter messages after the call.
GetQuery(filters) ==
    LET ff == FormatFilters(filters) IN
    IF ff.err # NoneVal
    THEN [err |-> ff.err, inequality_filter |-> NoneVal, orders |-> <<>>,
          filters |-> <<>>, messages |-> ff.messages]
    ELSE LET q == FilterLoop([err |-> NoneVal, filters |-> <<>>],
                             ff.formatted_filters, 1) IN
         IF q.err # NoneVal
         THEN [err |-> q.err, inequality_filter |-> ff.inequality_field,
               orders |-> QueryOrders(ff.inequality_field),
               filters |-> <<>>, messages |-> ff.messages]
         ELSE [err |-> NoneVal, inequality_filter |-> ff.inequality_field,
               orders |-> QueryOrders(ff.inequality_field),
               filters |-> q.filters, messages |-> ff.messages]

-----------------------------------------------------------------------------
(* Datastore entities *)

\* The signed-in users: every call modelled carries a current user.
Users == {"u1", "u2", "u3"}

\* Conference keys in the order allocate_ids hands them out.
ConfKeys == <<"k1">>

\* The client's integers for maxAttendees and seatsAvailable: -1..MaxClientInt.
\* An optional message field is <<>> when missing (None) and <<n>> when set.
MaxClientInt == 1
ClientInts == {<<>>} \cup {<<n>> : n \in -1..MaxClientInt}

Names == {"PyCon"}

MEMCACHE_ANNOUNCEMENTS_KEY == "MEMCACHE KEY"

\* DEFAULTS, conference.py:29-34 (the two integer fields)
DEFAULTS == [maxAttendees |-> 0, seatsAvailable |-> 0]

\* The Profile _get_profile_from_user builds for a user who has none,
\* conference.py:114-122.
NewProfile == [conferenceKeysToAttend |-> <<>>]

InList(x, list) == \E i \in 1..Len(list) : list[i] = x

\* list.remove(x): the first occurrence of x is taken out.
RECURSIVE ListRemove(_, _)
ListRemove(list, x) ==
    IF list = <<>> THEN <<>>
    ELSE IF Head(list) = x THEN Tail(list)
    ELSE <<Head(list)>> \o ListRemove(Tail(list), x)

NoResponse == [op |-> "none", result |-> NoneVal]

-----------------------------------------------------------------------------
(* _create_conference_object, conference.py:186-246 *)

\* "if data[df] in (None, [])": a missing field takes its default.
WithDefault(df, v) == IF v = <<>> THEN DEFAULTS[df] ELSE v[1]

\* seatsAvailable as stored, conference.py:223-227.
SeatsOnCreation(maxAttendees, seatsAvailable) ==
    IF maxAttendees > 0 THEN maxAttendees ELSE seatsAvailable

\* The key allocate_ids returns: the next one never used.
NextConfKey == ConfKeys[Cardinality(DOMAIN conferences) + 1]

CreateConference(u, name, maxAttendees, seatsAvailable) ==
    /\ Cardinality(DOMAIN conferences) < Len(ConfKeys)
    /\ IF ~Truthy(name)
       THEN /\ response' = [op |-> "createConference", result |-> "BadRequest"]
            /\ UNCHANGED conferences
       ELSE LET max == WithDefault("maxAttendees", maxAttendees)
                seats == WithDefault("seatsAvailable", seatsAvailable)
                conf == [name |-> name, maxAttendees |-> max,
                         seatsAvailable |-> SeatsOnCreation(max, seats)]
            IN /\ conferences' = (NextConfKey :> conf) @@ conferences
               /\ response' = [op |-> "createConference", result |-> NextConfKey]
    /\ UNCHANGED <<request, profiles, memcache, txn>>

-----------------------------------------------------------------------------
(* getProfile, conference.py:99-151: the profile is created when missing *)

GetProfile(u) ==
    /\ profiles' = IF u \in DOMAIN profiles THEN profiles
                   ELSE (u :> NewProfile) @@ profiles
    /\ response' = [op |-> "getProfile", result |-> NoneVal]
    /\ UNCHANGED <<request, conferences, memcache, txn>>

-----------------------------------------------------------------------------
(* _conference_registration, conference.py:632-678 *)

\* What a store holds for one key: the empty function when there is no entity.
Entity(store, key) == [k \in DOMAIN store \cap {key} |-> store[k]]

Idle == [pc |-> "idle", wsck |-> NoneVal, reg |-> FALSE,
         profiles |-> <<>>, conferences |-> <<>>]

\* The transaction starts: what it reads of the user's Profile and of the
\* Conference is the committed state at this moment.
Snapshot(u, wsck, reg) ==
    [pc |-> "running", wsck |-> wsck, reg |-> reg,
     profiles |-> Entity(profiles, u), conferences |-> Entity(conferences, wsck)]

\* RegistrationBody with the seats check made before the already-registered
\* check.
RegistrationBodySeatsFirst(t, u) ==
    LET wsck == t.wsck
        profile == IF u \in DOMAIN t.profiles THEN t.profiles[u] ELSE NewProfile
    IN
    IF wsck \notin DOMAIN t.conferences
    THEN [raised |-> "NotFound", return_value |-> NoneVal,
          profile |-> profile, conference |-> <<>>]
    ELSE LET conference == t.conferences[wsck] IN
         IF t.reg
         THEN IF conference.seatsAvailable <= 0
              THEN [raised |-> "ConflictNoSeats", return_value |-> NoneVal,
                    profile |-> profile, conference |-> conference]
              ELSE IF InList(wsck, profile.conferenceKeysToAttend)
              THEN [raised |-> "ConflictAlreadyRegistered", return_value |-> NoneVal,
                    profile |-> profile, conference |-> conference]
              ELSE [raised |-> NoneVal, return_value |-> "True",
                    profile |-> [profile EXCEPT !.conferenceKeysToAttend =
                                                    Append(@, wsck)],
                    conference |-> [conference EXCEPT !.seatsAvailable = @ - 1]]
         ELSE IF InList(wsck, profile.conferenceKeysToAttend)
              THEN [raised |-> NoneVal, return_value |-> "True",
                    profile |-> [profile EXCEPT !.conferenceKeysToAttend =
                                                    ListRemove(@, wsck)],
                    conference |-> [conference EXCEPT !.seatsAvailable = @ + 1]]
              ELSE [raised |-> NoneVal, return_value |-> "False",
                    profile |-> profile, conference |-> conference]

\* The function body on what the transaction read (lines 638-678): the
\* exception raised (or None), return_value, and the two entities as the body
\* leaves them, to be written by profile.put() and conference.put().
RegistrationBody(t, u) ==
    LET wsck == t.wsck
        profile == IF u \in DOMAIN t.profiles THEN t.profiles[u] ELSE NewProfile
    IN
    IF wsck \notin DOMAIN t.conferences
    THEN [raised |-> "NotFound", return_value |-> NoneVal,
          profile |-> profile, conference |-> <<>>]
    ELSE LET conference == t.conferences[wsck] IN
         IF t.reg
         THEN IF InList(wsck, profile.conferenceKeysToAttend)
              THEN [raised |-> "ConflictAlreadyRegistered", return_value |-> NoneVal,
                    profile |-> profile, conference |-> conference]
              ELSE IF conference.seatsAvailable <= 0
              THEN [raised |-> "ConflictNoSeats", return_value |-> NoneVal,
                    profile |-> profile, conference |-> conference]
              ELSE [raised |-> NoneVal, return_value |-> "True",
                    profile |-> [profile EXCEPT !.conferenceKeysToAttend =
                                                    Append(@, wsck)],
                    conference |-> [conference EXCEPT !.seatsAvailable = @ - 1]]
         ELSE IF InList(wsck, profile.conferenceKeysToAttend)
              THEN [raised |-> NoneVal, return_value |-> "True",
                    profile |-> [profile EXCEPT !.conferenceKeysToAttend =
                                                    ListRemove(@, wsck)],
                    conference |-> [conference EXCEPT !.seatsAvailable = @ + 1]]
              ELSE [raised |-> NoneVal, return_value |-> "False",
                    profile |-> profile, conference |-> conference]

\* Stale without the transaction: no write of another request is noticed.
StaleNever(t, u) == FALSE

\* @ndb.transactional(xg=True): the commit goes through only if neither entity
\* read was written by someone else since the transaction started.
Stale(t, u) ==
    \/ Entity(profiles, u) # t.profiles
    \/ Entity(conferences, t.wsck) # t.conferences

\* CommitConferences with the conference's put lost.
CommitConferencesLost(wsck, r) == conferences

\* The commit: both puts become visible together.
CommitProfiles(u, r) == (u :> r.profile) @@ profiles
CommitConferences(wsck, r) == (wsck :> r.conference) @@ conferences

\* registerForConference (reg = TRUE) enters the transaction; reg = FALSE is
\* _conference_registration called with reg=False.
BeginRegistration(u, wsck, reg) ==
    /\ txn[u].pc = "idle"
    /\ txn' = [txn EXCEPT ![u] = Snapshot(u, wsck, reg)]
    /\ UNCHANGED <<request, response, conferences, profiles, memcache>>

\* The body raised: the transaction is rolled back and the exception reaches
\* the caller.
RaiseRegistration(u) ==
    /\ txn[u].pc = "running"
    /\ LET r == RegistrationBody(txn[u], u) IN
       /\ r.raised # NoneVal
       /\ response' = [op |-> "registration", result |-> r.raised]
    /\ txn' = [txn EXCEPT ![u] = Idle]
    /\ UNCHANGED <<request, conferences, profiles, memcache>>

\* The body returned and nothing it read has changed: both entities are written.
CommitRegistration(u) ==
    /\ txn[u].pc = "running"
    /\ ~Stale(txn[u], u)
    /\ LET r == RegistrationBody(txn[u], u) IN
       /\ r.raised = NoneVal
       /\ profiles' = CommitProfiles(u, r)
       /\ conferences' = CommitConferences(txn[u].wsck, r)
       /\ response' = [op |-> "registration", result |-> r.return_value]
    /\ txn' = [txn EXCEPT ![u] = Idle]
    /\ UNCHANGED <<request, memcache>>

\* The body returned but an entity it read has changed: nothing is written and
\* the function runs again on a fresh read.
RetryRegistration(u) ==
    /\ txn[u].pc = "running"
    /\ Stale(txn[u], u)
    /\ RegistrationBody(txn[u], u).raised = NoneVal
    /\ txn' = [txn EXCEPT ![u] = Snapshot(u, txn[u].wsck, txn[u].reg)]
    /\ UNCHANGED <<request, response, conferences, profiles, memcache>>

-----------------------------------------------------------------------------
(* Announcements: _cache_announcement, conference.py:715-738 (run by          *)
(* SetAnnouncementHandler.get, main.py:9-15) and getAnnouncement, 740-749     *)

\* Conference.query(seatsAvailable <= 5, seatsAvailable > 0)
NearlySoldOut == {k \in DOMAIN conferences :
                    /\ conferences[k].seatsAvailable <= 5
                    /\ conferences[k].seatsAvailable > 0}

\* The names of the conferences of a set of keys, in key order.
RECURSIVE NamesOf(_, _)
NamesOf(keys, i) ==
    IF i > Len(ConfKeys) THEN <<>>
    ELSE (IF ConfKeys[i] \in keys THEN <<conferences[ConfKeys[i]].name>> ELSE <<>>)
         \o NamesOf(keys, i + 1)

\* ', '.join(names), as the sequence of its pieces
RECURSIVE Join(_)
Join(names) ==
    IF Len(names) <= 1 THEN names
    ELSE <<Head(names), ", ">> \o Join(Tail(names))

Announcement(keys) ==
    <<"Last chance to attend! The following conferences are nearly sold out:", " ">>
        \o Join(NamesOf(keys, 1))

CacheAnnouncement ==
    /\ IF NearlySoldOut # {}
       THEN memcache' = (MEMCACHE_ANNOUNCEMENTS_KEY :> Announcement(NearlySoldOut))
       ELSE memcache' = <<>>
    /\ response' = [op |-> "setAnnouncement", result |-> NoneVal]
    /\ UNCHANGED <<request, conferences, profiles, txn>>

\* get_announcement returns the empty string it has just assigned.
GetAnnouncement ==
    /\ response' = [op |-> "getAnnouncement", result |-> <<>>]
    /\ UNCHANGED <<request, conferences, profiles, memcache, txn>>

-----------------------------------------------------------------------------
(* The datastore side of the service *)

Init ==
    /\ request = <<>>
    /\ response = NoResponse
    /\ conferences = <<>>
    /\ profiles = <<>>
    /\ memcache = <<>>
    /\ txn = [u \in Users |-> Idle]

Next ==
    \/ \E u \in Users, name \in Names \cup {NoneVal}, m \in ClientInts, s \in ClientInts :
          CreateConference(u, name, m, s)
    \/ \E u \in Users : GetProfile(u)
    \/ \E u \in Users, i \in 1..Len(ConfKeys), reg \in BOOLEAN :
          BeginRegistration(u, ConfKeys[i], reg)
    \/ \E u \in Users : RaiseRegistration(u)
    \/ \E u \in Users : CommitRegistration(u)
    \/ \E u \in Users : RetryRegistration(u)
    \/ CacheAnnouncement
    \/ GetAnnouncement

Spec == Init /\ [][Next]_vars

-----------------------------------------------------------------------------
(* queryConferences, conference.py:305-316: the query _get_query builds *)

QueryConferences ==
    LET q == GetQuery(request) IN
    /\ request' = q.messages
    /\ response' = [op |-> "queryConferences",
                    result |-> [err |-> q.err,
                                inequality_filter |-> q.inequality_filter,
                                orders |-> q.orders, filters |-> q.filters]]
    /\ UNCHANGED <<conferences, profiles, memcache, txn>>

\* The client's filter messages: at most MaxFilters filters. Every token of
\* both tables occurs, with one unknown field token and one unknown operator
\* token: each field with EQ, GT and the unknown operator, and each further
\* operator with one field. The numeric fields and CITY come with a numeric
\* and a non-numeric value.
MaxFilters == 3
FieldTokens == {"CITY", "TOPIC", "MONTH", "MAX_ATTENDEES", "SPEAKER"}
ValueStrings == {<<"1", "0">>, <<"A">>}

ValuesFor(f) ==
    IF f \in {"CITY", "MONTH", "MAX_ATTENDEES"} THEN ValueStrings ELSE {<<"A">>}

FilterMessages ==
    {[field |-> p[1], operator |-> o, value |-> StrV(p[2])] :
        p \in {q \in FieldTokens \X ValueStrings : q[2] \in ValuesFor(q[1])},
        o \in {"EQ", "GT", "CONTAINS"}}
    \cup {[field |-> "CITY", operator |-> "GTEQ", value |-> StrV(<<"A">>)],
          [field |-> "TOPIC", operator |-> "LT", value |-> StrV(<<"A">>)],
          [field |-> "MONTH", operator |-> "LTEQ", value |-> StrV(<<"1", "0">>)],
          [field |-> "MAX_ATTENDEES", operator |-> "NE", value |-> StrV(<<"1", "0">>)]}

FilterSeqs == UNION {[1..n -> FilterMessages] : n \in 0..MaxFilters}

\* A datastore the service has reached: one conference whose only seat is taken.
SampleConferences ==
    ("k1" :> [name |-> "PyCon", maxAttendees |-> 1, seatsAvailable |-> 0])
SampleProfiles == ("u1" :> [conferenceKeysToAttend |-> <<"k1">>])

InitQuery ==
    /\ request \in FilterSeqs
    /\ response = NoResponse
    /\ conferences = SampleConferences
    /\ profiles = SampleProfiles
    /\ memcache = <<>>
    /\ txn = [u \in Users |-> Idle]

NextQuery == QueryConferences

SpecQuery == InitQuery /\ [][NextQuery]_vars

-----------------------------------------------------------------------------
(* The contract of the filter validator, as the specification words it *)

SpecFieldNames ==
    [CITY |-> "city", TOPIC |-> "topics", MONTH |-> "month",
     MAX_ATTENDEES |-> "maxAttendees"]
SpecOperatorSymbols ==
    [EQ |-> "=", GT |-> ">", GTEQ |-> ">=", LT |-> "<", LTEQ |-> "<=", NE |-> "!="]

AfterQuery == response.op = "queryConferences"
Plan == response.result

KnownTokens(f) ==
    /\ f.field \in {"CITY", "TOPIC", "MONTH", "MAX_ATTENDEES"}
    /\ f.operator \in {"EQ", "GT", "GTEQ", "LT", "LTEQ", "NE"}
AllKnown == \A i \in DOMAIN request : KnownTokens(request[i])
IsInequality(f) == KnownTokens(f) /\ f.operator # "EQ"
InequalityPositions == {i \in DOMAIN request : IsInequality(request[i])}

\* Two filters among the first n carry inequalities on different fields.
ConflictWithin(n) ==
    \E i, j \in InequalityPositions :
        i <= n /\ j <= n /\ request[i].field # request[j].field
Min(S) == CHOOSE x \in S : \A y \in S : x <= y
FirstInequalityField ==
    IF InequalityPositions = {} THEN NoneVal
    ELSE SpecFieldNames[request[Min(InequalityPositions)].field]

NumericField(f) == f.field \in {"MONTH", "MAX_ATTENDEES"}
NumericString(v) == v.s = <<"1", "0">>
BadNumber == \E i \in DOMAIN request : NumericField(request[i]) /\ ~NumericString(request[i].value)

C2_UnknownTokenIsInvalidFilter ==
    AfterQuery =>
        /\ ~AllKnown => (Plan.err = "InvalidFilter" /\ Plan.filters = <<>>)
        /\ Plan.err = NoneVal =>
              \A i \in DOMAIN request :
                  /\ Plan.filters[i].field = SpecFieldNames[request[i].field]
                  /\ Plan.filters[i].operator = SpecOperatorSymbols[request[i].operator]

FirstUnknown == Min({i \in DOMAIN request : ~KnownTokens(request[i])})

\* C2 as amended: a filter with a token outside the tables makes validation
\* fail and no query is built; the failure is InvalidFilterError unless two
\* filters before the first such filter carry non-"=" operators on different
\* fields, and then it is MultipleInequalityFieldsError (the filters are
\* validated one by one in input order). Known tokens are mapped to the
\* table's field name and operator symbol.
C2_UnknownTokenRejected ==
    AfterQuery =>
        /\ ~AllKnown =>
              /\ Plan.filters = <<>>
              /\ Plan.err = IF ConflictWithin(FirstUnknown - 1)
                            THEN "MultipleInequalityFields" ELSE "InvalidFilter"
        /\ Plan.err = NoneVal =>
              /\ Len(Plan.filters) = Len(request)
              /\ \A i \in DOMAIN request :
                  /\ Plan.filters[i].field = SpecFieldNames[request[i].field]
                  /\ Plan.filters[i].operator = SpecOperatorSymbols[request[i].operator]

C2_Witness ==
    /\ AfterQuery /\ Len(request) = 3
    /\ request[1].operator = "GT" /\ request[2].field = "TOPIC"
    /\ request[2].operator = "EQ" /\ request[3].field = "SPEAKER"
    /\ Plan.err = "InvalidFilter" /\ Plan.filters = <<>>

\* C3: a non-numeric value for month or maxAttendees, in a filter sequence
\* that passes the token and inequality checks, is rejected with
\* InvalidFilterError; a numeric value reaches the query as an integer.
C3_NonNumericValueIsInvalidFilter ==
    AfterQuery /\ AllKnown /\ ~ConflictWithin(Len(request)) =>
        IF BadNumber THEN Plan.err = "InvalidFilter"
        ELSE \A i \in DOMAIN request :
                NumericField(request[i]) => Plan.filters[i].value = IntV(10)

\* C4: the inequality field _format_filters returns is the mapped field of the
\* first filter in input order whose operator is not "=", and None exactly
\* when every operator is "=".
C4_FirstInequalityDesignated ==
    AfterQuery /\ Plan.err \in {NoneVal, "ValueError"} =>
        /\ Plan.inequality_filter = FirstInequalityField
        /\ Plan.inequality_filter = NoneVal
              <=> \A i \in DOMAIN request : request[i].operator = "EQ"

C4_Witness ==
    /\ AfterQuery /\ Len(request) = 3 /\ Plan.err = NoneVal
    /\ request[1].operator = "EQ" /\ request[1].field = "CITY"
    /\ request[2].operator = "GT" /\ request[2].field = "MONTH"
    /\ request[3].operator = "LTEQ"
    /\ Plan.inequality_filter = "month"

\* C5: the sort keys of the query are [inequality field, name] when an
\* inequality field is designated and [name] otherwise.
C5_SortKeys ==
    AfterQuery /\ Plan.err = NoneVal =>
        Plan.orders = IF InequalityPositions = {} THEN <<"name">>
                      ELSE <<FirstInequalityField, "name">>

C5_Witness ==
    /\ AfterQuery /\ Len(request) = 2 /\ Plan.err = NoneVal
    /\ request[1].field = "MONTH" /\ request[1].operator = "EQ"
    /\ request[2].field = "MAX_ATTENDEES" /\ request[2].operator = "GT"
    /\ Plan.orders = <<"maxAttendees", "name">>

\* The predicate the i-th filter stands for: mapped field, mapped operator,
\* and the value, an integer for month and maxAttendees.
ExpectedPredicate(f) ==
    [field |-> SpecFieldNames[f.field], operator |-> SpecOperatorSymbols[f.operator],
     value |-> IF NumericField(f) THEN IntV(10) ELSE f.value]

\* C6: a query that was built has one predicate per input filter, the i-th
\* being the i-th filter mapped, with an integer value for month and
\* maxAttendees.
C6_PredicatesInInputOrder ==
    AfterQuery /\ Plan.err = NoneVal =>
        /\ Len(Plan.filters) = Len(request)
        /\ \A i \in DOMAIN request : Plan.filters[i] = ExpectedPredicate(request[i])

C6_Witness ==
    /\ AfterQuery /\ Len(request) = 2
    /\ request[1] = [field |-> "MONTH", operator |-> "EQ", value |-> StrV(<<"1", "0">>)]
    /\ request[2] = [field |-> "MAX_ATTENDEES", operator |-> "GT",
                     value |-> StrV(<<"1", "0">>)]
    /\ Plan.filters = <<[field |-> "month", operator |-> "=", value |-> IntV(10)],
                        [field |-> "maxAttendees", operator |-> ">", value |-> IntV(10)]>>

\* C7: queryConferences leaves the client's filter messages, the stored
\* records and the cache as they were, whether it accepts or rejects, and a
\* second run on the same input gives the same result.
C7_QueryIsPure ==
    [][/\ request' = request
       /\ <<conferences, profiles, memcache, txn>>' = <<conferences, profiles, memcache, txn>>
       /\ AfterQuery => response' = response]_vars

C7_Witness ==
    /\ AfterQuery /\ Len(request) = 3 /\ Plan.err = NoneVal
    /\ conferences = SampleConferences /\ profiles = SampleProfiles

-----------------------------------------------------------------------------
(* Registration and announcements *)

Keys(store, u) == IF u \in DOMAIN store THEN store[u].conferenceKeysToAttend ELSE <<>>
Attends(store, u, c) == \E i \in DOMAIN Keys(store, u) : Keys(store, u)[i] = c

\* The registration attempt of user u ends in this step.
Ends(u) == txn[u].pc = "running" /\ txn'[u].pc = "idle"

\* C8: a register or unregister attempt either updates both records (key
\* added and one seat taken, or key removed and one seat given back) or
\* leaves the user's conferenceKeysToAttend and every conference as they
\* were; an attempt that ends in NotFound or Conflict changes no record.
C8_RegistrationAllOrNothing ==
    [][\A u \in Users : Ends(u) =>
          LET c == txn[u].wsck IN
          /\ \A v \in Users \ {u} : Keys(profiles', v) = Keys(profiles, v)
          /\ \/ /\ Keys(profiles', u) = Keys(profiles, u)
                /\ conferences' = conferences
             \/ /\ txn[u].reg /\ c \in DOMAIN conferences
                /\ ~Attends(profiles, u, c) /\ Attends(profiles', u, c)
                /\ conferences'[c].seatsAvailable = conferences[c].seatsAvailable - 1
             \/ /\ ~txn[u].reg /\ c \in DOMAIN conferences
                /\ Attends(profiles, u, c) /\ ~Attends(profiles', u, c)
                /\ conferences'[c].seatsAvailable = conferences[c].seatsAvailable + 1
          /\ response'.result \in {"NotFound", "ConflictAlreadyRegistered", "ConflictNoSeats"}
                => (profiles' = profiles /\ conferences' = conferences)]_vars

C8_Witness ==
    /\ response = [op |-> "registration", result |-> "True"]
    /\ Attends(profiles, "u1", "k1") /\ ~Attends(profiles, "u2", "k1")
    /\ "k1" \in DOMAIN conferences
    /\ conferences["k1"].seatsAvailable = conferences["k1"].maxAttendees - 1
    /\ txn["u1"].pc = "idle"

\* C9: a getAnnouncement call returns the announcement stored in memcache, and
\* the empty string only when none is stored.
C9_AnnouncementReturned ==
    response.op = "getAnnouncement" =>
        response.result = IF MEMCACHE_ANNOUNCEMENTS_KEY \in DOMAIN memcache
                          THEN memcache[MEMCACHE_ANNOUNCEMENTS_KEY] ELSE <<>>

\* C10: whatever the interleaving of the registration transactions, the users
\* who get registered for a conference in a step find at least as many seats
\* available, the seats go down by their number, and no step takes
\* seatsAvailable below 0.
C10_SeatsNeverOverbooked ==
    [][\A c \in DOMAIN conferences :
          LET newly == {u \in Users : Attends(profiles', u, c) /\ ~Attends(profiles, u, c)}
              seats == conferences[c].seatsAvailable
              seats2 == conferences'[c].seatsAvailable
          IN /\ newly # {} => (seats >= Cardinality(newly)
                               /\ seats2 = seats - Cardinality(newly))
             /\ seats2 < seats => seats2 >= 0]_vars

\* Two users have read the last seat; one has committed and holds it, the
\* other's transaction is still running on what it read.
C10_Witness ==
    /\ "k1" \in DOMAIN conferences /\ conferences["k1"].seatsAvailable = 0
    /\ Attends(profiles, "u1", "k1") /\ ~Attends(profiles, "u2", "k1")
    /\ txn["u2"].pc = "running" /\ txn["u2"].reg
    /\ "k1" \in DOMAIN txn["u2"].conferences
    /\ txn["u2"].conferences["k1"].seatsAvailable = 1

-----------------------------------------------------------------------------
(* Conference creation and the seat counter *)

\* C11: right after createConference has stored a conference, its
\* seatsAvailable equals its maxAttendees, whatever the client sent.
C11_SeatsEqualMaxOnCreation ==
    (response.op = "createConference" /\ response.result \in DOMAIN conferences) =>
        conferences[response.result].seatsAvailable
            = conferences[response.result].maxAttendees

\* C12: a register attempt that read a conference with seatsAvailable <= 0
\* ends in the no-seats Conflict, one by a user whose conferenceKeysToAttend
\* (as read) holds the key ends in the already-registered Conflict, which is
\* the one reported when both hold; in both cases no record changes.
C12_RegisterConflicts ==
    [][\A u \in Users :
          (Ends(u) /\ txn[u].reg /\ txn[u].wsck \in DOMAIN txn[u].conferences) =>
          LET c == txn[u].wsck
              registered == Attends(txn[u].profiles, u, c)
              noSeats == txn[u].conferences[c].seatsAvailable <= 0
          IN /\ registered => response'.result = "ConflictAlreadyRegistered"
             /\ (noSeats /\ ~registered) => response'.result = "ConflictNoSeats"
             /\ (registered \/ noSeats) =>
                   (response'.op = "registration"
                    /\ profiles' = profiles /\ conferences' = conferences)]_vars

\* u1 holds the only seat and has just tried to register again: both
\* conditions held and the already-registered Conflict was reported.
C12_Witness ==
    /\ response = [op |-> "registration", result |-> "ConflictAlreadyRegistered"]
    /\ "k1" \in DOMAIN conferences /\ conferences["k1"].seatsAvailable = 0
    /\ Attends(profiles, "u1", "k1")
    /\ ~Attends(profiles, "u2", "k1") /\ ~Attends(profiles, "u3", "k1")
    /\ \A u \in Users : txn[u].pc = "idle"

\* C13: for every stored conference, seatsAvailable plus the number of
\* profiles whose conferenceKeysToAttend holds its key equals maxAttendees,
\* and 0 <= seatsAvailable <= maxAttendees.
C13_SeatConservation ==
    \A c \in DOMAIN conferences :
        LET attendees == {u \in Users : Attends(profiles, u, c)} IN
        /\ conferences[c].seatsAvailable + Cardinality(attendees)
              = conferences[c].maxAttendees
        /\ 0 <= conferences[c].seatsAvailable
        /\ conferences[c].seatsAvailable <= conferences[c].maxAttendees

====
